---------------------------- MODULE Spec2Model ----------------------------
(***************************************************************************)
(* Model of the YOLOv4 training driver, src/train.py: the learning-rate    *)
(* schedule (burnin_schedule driven by torch's LambdaLR), the gradient     *)
(* accumulation cadence, the backbone freeze, the per-epoch checkpoint     *)
(* with rotation, and the KeyboardInterrupt path of __main__.              *)
(*                                                                         *)
(* A KeyboardInterrupt is raised between two statements of train(), so     *)
(* every statement of train() that changes the state is a step of its own  *)
(* and pc names the statement that runs next.                              *)
(*                                                                         *)
(* Numbers that the code keeps as floats (the schedule factor) are kept    *)
(* as exact fractions <<numerator, denominator>> in lowest terms.          *)
(* The model state written by torch.save is identified by the number of    *)
(* optimizer steps applied to it.                                          *)
(***************************************************************************)
EXTENDS Integers, Sequences, FiniteSets, TLC

(***************************************************************************)
(* Bounds of the model.                                                    *)
(***************************************************************************)
MaxBatch == 3
MaxSubdiv == 3
MaxTrain == 3
MaxEpochs == 3
MaxKeep == 2
MaxBurnIn == 3
MaxStep == 3
MaxIndex == 5
MaxLogEpochs == 2
MaxEntries == 4
MaxSubdirs == 2
MaxFiles == 2

VARIABLES
    config,         \* cfg: batch, subdivisions, burn_in, steps, keep_checkpoint_max, pretrained
    epochs,         \* cfg.TRAIN_EPOCHS, the epochs argument of train()
    n_train,        \* len(train_dataset)
    device_count,   \* torch.cuda.device_count()
    pc,             \* the statement that runs next
    epoch,          \* loop variable of "for epoch in range(epochs)"
    global_step,    \* micro-batches started since the start of the run
    epoch_step,     \* micro-batches started in this epoch
    requires_grad,  \* p.requires_grad of every parameter
    params_left,    \* the parameters the freeze loop has still to visit
    pending,        \* backward passes accumulated in the gradients since the last clear
    opt_steps,      \* calls of optimizer.step()
    zero_grads,     \* calls of model.zero_grad()
    updates,        \* optimizer steps applied with a non-zero learning rate
    last_epoch,     \* scheduler.last_epoch: the index LambdaLR last passed to burnin_schedule
    lr_factor,      \* the factor LambdaLR last got from burnin_schedule
    saved_models,   \* the deque of checkpoint paths, by 1-based epoch number
    model_to_remove,\* the path popped from the deque: <<>> or <<path>>
    disk,           \* epoch checkpoint files: epoch number -> [complete, state]
    interrupted,    \* INTERRUPTED.pth: <<>> or <<state>>
    emergency_saves,\* times INTERRUPTED.pth was written
    interrupts,     \* KeyboardInterrupts raised inside train()
    remove_failed,  \* paths logged as 'failed to remove'
    write_errors,   \* paths whose torch.save raised
    log_step,       \* the log_step argument of train()
    calls,          \* what the body of the latest micro-batch has called, in order
    epoch_loss,     \* sum of loss.item() over the micro-batches of this epoch
    log_count,      \* progress records emitted
    last_record,    \* the latest progress record: <<>> or <<[step, lr]>>
    conversion      \* convert_annotations.py: its position, the directories, the manifests

vars == <<config, epochs, n_train, device_count, pc, epoch, global_step, epoch_step,
          requires_grad, params_left, pending, opt_steps, zero_grads, updates,
          last_epoch, lr_factor, saved_models, model_to_remove, disk, interrupted,
          emergency_saves, interrupts, remove_failed, write_errors, log_step, calls,
          epoch_loss, log_count, last_record, conversion>>

\* what train() never changes
cfgvars == <<config, epochs, n_train, device_count, log_step, conversion>>

\* what only the micro-batch loop changes
loopvars == <<calls, epoch_loss, log_count, last_record>>

\* the counters of the two loops
countvars == <<epoch, global_step, epoch_step>>

\* the trainable flags and the position of the freeze loop
freezevars == <<requires_grad, params_left>>

\* the gradients, the optimizer and the scheduler
stepvars == <<pending, opt_steps, zero_grads, updates, last_epoch, lr_factor>>

\* the checkpoint record and the checkpoint directory
filevars == <<saved_models, model_to_remove, disk, remove_failed, write_errors>>

\* the interrupts and the emergency checkpoint
exitvars == <<interrupted, emergency_saves, interrupts>>

(***************************************************************************)
(* Exact fractions.                                                        *)
(***************************************************************************)
RECURSIVE GCD(_, _)
GCD(a, b) == IF b = 0 THEN a ELSE GCD(b, a % b)

Rat(n, d) == LET g == GCD(n, d) IN <<n \div g, d \div g>>

RatLess(x, y) == x[1] * y[2] < y[1] * x[2]

RatLeq(x, y) == x[1] * y[2] <= y[1] * x[2]

RatMul(x, y) == Rat(x[1] * y[1], x[2] * y[2])

RECURSIVE RatPow(_, _)
RatPow(x, n) == IF n = 0 THEN <<1, 1>> ELSE RatMul(x, RatPow(x, n - 1))

(***************************************************************************)
(* burnin_schedule(i): the multiplier of the base learning rate.           *)
(***************************************************************************)
\* the last branch returns the factor of the branch before it
burnin_schedule_flat(i) ==
    IF i < config.burn_in THEN RatPow(Rat(i, config.burn_in), 4)
    ELSE IF i < config.steps[0] THEN <<1, 1>>
    ELSE IF i < config.steps[1] THEN <<1, 10>>
    ELSE <<1, 10>>

\* the warm-up is quadratic
burnin_schedule_square(i) ==
    IF i < config.burn_in THEN RatPow(Rat(i, config.burn_in), 2)
    ELSE IF i < config.steps[0] THEN <<1, 1>>
    ELSE IF i < config.steps[1] THEN <<1, 10>>
    ELSE <<1, 100>>

burnin_schedule(i) ==
    IF i < config.burn_in THEN RatPow(Rat(i, config.burn_in), 4)
    ELSE IF i < config.steps[0] THEN <<1, 1>>
    ELSE IF i < config.steps[1] THEN <<1, 10>>
    ELSE <<1, 100>>


(***************************************************************************)
(* torch.optim.lr_scheduler.LambdaLR(optimizer, burnin_schedule): the      *)
(* constructor takes its initial step, which sets last_epoch to 0, and     *)
(* every scheduler.step() adds one to last_epoch; after either, the        *)
(* optimizer's learning rate is base_lr * burnin_schedule(last_epoch).     *)
(***************************************************************************)
LambdaLRInitialIndex == 0

\* scheduler.step() leaves the index where it is
LambdaLRNextIndex_stuck(i) == i

LambdaLRNextIndex(i) == i + 1

(***************************************************************************)
(* The data loader: micro-batches of batch // subdivisions samples, the    *)
(* last incomplete one dropped.                                            *)
(***************************************************************************)
micro_batch_size == config.batch \div config.subdivisions

batches_per_epoch == n_train \div micro_batch_size

(***************************************************************************)
(* The accumulation condition of the micro-batch loop.                     *)
(***************************************************************************)
\* the cadence is counted from the start of the epoch
StepDue_per_epoch(step) == epoch_step % config.subdivisions = 0

StepDue(step) == step % config.subdivisions = 0

(***************************************************************************)
(* The parameters of the model, by the top-level module that owns them,    *)
(* and the first component of the name named_parameters() gives them:      *)
(* torch.nn.DataParallel puts "module." before every name.                 *)
(***************************************************************************)
Params == {"down1", "neek", "head"}

\* the order in which model.named_parameters() yields them
named_parameters == <<"down1", "neek", "head">>

Backbone == Params \ {"head"}

Wrapped == device_count > 1

FirstComponent(p) == IF Wrapped THEN "module" ELSE p

\* 'head' in s, over the first components that occur
ContainsHead(s) == s \in {"head"}

freeze_backbone == config.pretrained

\* the unfreeze of epoch 1 is left out
FreezeApplies_first_epoch(e) == freeze_backbone /\ e < 1

FreezeApplies(e) == freeze_backbone /\ e < 2

FreezeValue(e) == IF e = 0 THEN FALSE ELSE TRUE

Frozen(p, e) == FreezeApplies(e) /\ ~ContainsHead(FirstComponent(p))

(***************************************************************************)
(* Checkpoint files.                                                       *)
(***************************************************************************)
File(complete, state) == [complete |-> complete, state |-> state]

Write(files, path, file) == (path :> file) @@ files

Remove(files, path) == [q \in (DOMAIN files) \ {path} |-> files[q]]

\* the eviction fires one entry early
EvictDue_early(len) == len >= config.keep_checkpoint_max /\ config.keep_checkpoint_max > 0

\* the eviction fires one entry late
EvictDue_late(len) ==
    len > config.keep_checkpoint_max + 1 /\ config.keep_checkpoint_max > 0

EvictDue(len) == len > config.keep_checkpoint_max /\ config.keep_checkpoint_max > 0

(***************************************************************************)
(* The progress record: every log_step * subdivisions micro-batches, with  *)
(* scheduler.get_lr()[0] * config.batch as the learning rate, where the    *)
(* optimizer's base rate is config.learning_rate / config.batch.           *)
(***************************************************************************)
DefaultLogStep == 20

learning_rate == <<1, 1000>>

\* the cadence leaves subdivisions out
LogDue_per_log_step(step) == step % log_step = 0

LogDue(step) == step % (log_step * config.subdivisions) = 0

base_lr == Rat(learning_rate[1], learning_rate[2] * config.batch)

get_lr(factor) == RatMul(base_lr, factor)

Record(step, factor) ==
    [step |-> step, lr |-> RatMul(get_lr(factor), <<config.batch, 1>>)]

\* loss.item() of a micro-batch
LossValues == {1, 2}

(***************************************************************************)
(* The configurations of a run.                                            *)
(***************************************************************************)
Steps(a, b) == (0 :> a) @@ (1 :> b)

RunSteps == {Steps(1, MaxStep)}

Configs(steps) ==
    [batch : 1..MaxBatch, subdivisions : 1..MaxSubdiv, burn_in : 0..MaxBurnIn,
     steps : steps, keep_checkpoint_max : 0..MaxKeep, pretrained : BOOLEAN]

(***************************************************************************)
(* The state on entry to the try block of __main__: the model is built     *)
(* (every parameter trainable) and wrapped, train() is about to be called. *)
(***************************************************************************)
\* convert_labels() is another program: a training run never touches it
NoConversion == [pc |-> "none"]

TrainEntry ==
    /\ pc = "train"
    /\ epoch = 0
    /\ global_step = 0
    /\ epoch_step = 0
    /\ requires_grad = [p \in Params |-> TRUE]
    /\ params_left = <<>>
    /\ pending = 0
    /\ opt_steps = 0
    /\ zero_grads = 0
    /\ updates = 0
    /\ last_epoch = -1
    /\ lr_factor = <<1, 1>>
    /\ saved_models = <<>>
    /\ model_to_remove = <<>>
    /\ disk = <<>>
    /\ interrupted = <<>>
    /\ emergency_saves = 0
    /\ interrupts = 0
    /\ remove_failed = {}
    /\ write_errors = {}
    /\ calls = <<>>
    /\ epoch_loss = 0
    /\ log_count = 0
    /\ last_record = <<>>
    /\ conversion = NoConversion

Init ==
    /\ config \in Configs(RunSteps)
    /\ epochs \in 0..MaxEpochs
    /\ n_train \in 0..MaxTrain
    /\ device_count \in {1, 2}
    /\ log_step = DefaultLogStep
    /\ TrainEntry

(***************************************************************************)
(* train(), up to the epoch loop: the loaders, the optimizer, the          *)
(* scheduler.  DataLoader refuses a batch size of 0 with a ValueError.     *)
(***************************************************************************)
TrainSetup ==
    /\ pc = "train"
    /\ IF micro_batch_size = 0
       THEN /\ pc' = "crashed"
            /\ UNCHANGED <<global_step, last_epoch, lr_factor, saved_models>>
       ELSE /\ pc' = "epoch_loop"
            /\ global_step' = 0
            /\ last_epoch' = LambdaLRInitialIndex
            /\ lr_factor' = burnin_schedule(LambdaLRInitialIndex)
            /\ saved_models' = <<>>
    /\ UNCHANGED <<epoch, epoch_step, pending, opt_steps, zero_grads, updates,
                   model_to_remove, disk, remove_failed, write_errors>>
    /\ UNCHANGED <<cfgvars, loopvars, freezevars, exitvars>>

(***************************************************************************)
(* The head of one epoch: the two counters, then the backbone freeze, one  *)
(* parameter of model.named_parameters() at a time.                        *)
(***************************************************************************)
\* the gradients are cleared at the start of every epoch
EpochStart_zero_grad ==
    /\ pc = "epoch_loop"
    /\ epoch < epochs
    /\ pc' = "reset"
    /\ epoch_loss' = 0
    /\ pending' = 0
    /\ zero_grads' = zero_grads + 1
    /\ UNCHANGED <<opt_steps, updates, last_epoch, lr_factor>>
    /\ UNCHANGED <<cfgvars, calls, log_count, last_record, countvars, freezevars,
                   filevars, exitvars>>

\* for epoch in range(epochs): epoch_loss = 0
EpochStart ==
    /\ pc = "epoch_loop"
    /\ epoch < epochs
    /\ pc' = "reset"
    /\ epoch_loss' = 0
    /\ UNCHANGED <<cfgvars, calls, log_count, last_record, countvars, freezevars,
                   stepvars, filevars, exitvars>>

\* epoch_step is set before the epoch loop, not in it
ResetEpochStep_keep ==
    /\ pc = "reset"
    /\ IF FreezeApplies(epoch)
       THEN pc' = "freeze" /\ params_left' = named_parameters
       ELSE pc' = "batch_loop" /\ UNCHANGED params_left
    /\ UNCHANGED <<cfgvars, loopvars, countvars, requires_grad, stepvars, filevars,
                   exitvars>>

\* epoch_step = 0, then the test of "if freeze_backbone and epoch < 2"
ResetEpochStep ==
    /\ pc = "reset"
    /\ epoch_step' = 0
    /\ IF FreezeApplies(epoch)
       THEN pc' = "freeze" /\ params_left' = named_parameters
       ELSE pc' = "batch_loop" /\ UNCHANGED params_left
    /\ UNCHANGED <<cfgvars, loopvars, epoch, global_step, requires_grad, stepvars,
                   filevars, exitvars>>

\* one pass of "for name, p in model.named_parameters()"
FreezeParam ==
    /\ pc = "freeze"
    /\ params_left # <<>>
    /\ LET p == Head(params_left) IN
       requires_grad' = [requires_grad EXCEPT
                            ![p] = IF Frozen(p, epoch) THEN FreezeValue(epoch) ELSE @]
    /\ params_left' = Tail(params_left)
    /\ pc' = IF Tail(params_left) = <<>> THEN "batch_loop" ELSE "freeze"
    /\ UNCHANGED <<cfgvars, loopvars, countvars, stepvars, filevars, exitvars>>

\* range(epochs) is exhausted: train() returns and the process ends
TrainReturn ==
    /\ pc = "epoch_loop"
    /\ epoch = epochs
    /\ pc' = "done"
    /\ UNCHANGED <<cfgvars, loopvars, countvars, freezevars, stepvars, filevars,
                   exitvars>>

(***************************************************************************)
(* The body of one micro-batch, statement by statement.                    *)
(***************************************************************************)
\* for batch in train_loader: global_step += 1
NextBatch ==
    /\ pc = "batch_loop"
    /\ epoch_step < batches_per_epoch
    /\ pc' = "counted"
    /\ global_step' = global_step + 1
    /\ UNCHANGED <<epoch, epoch_step>>
    /\ UNCHANGED <<cfgvars, loopvars, freezevars, stepvars, filevars, exitvars>>

\* epoch_step += 1
CountEpochStep ==
    /\ pc = "counted"
    /\ pc' = "forward"
    /\ epoch_step' = epoch_step + 1
    /\ UNCHANGED <<epoch, global_step>>
    /\ UNCHANGED <<cfgvars, loopvars, freezevars, stepvars, filevars, exitvars>>

\* the forward pass, the loss and loss.backward(), which adds to the gradients
Backward ==
    /\ pc = "forward"
    /\ pc' = "backward_done"
    /\ pending' = pending + 1
    /\ calls' = <<"loss.backward">>
    /\ UNCHANGED <<opt_steps, zero_grads, updates, last_epoch, lr_factor>>
    /\ UNCHANGED <<cfgvars, epoch_loss, log_count, last_record, countvars, freezevars,
                   filevars, exitvars>>

\* epoch_loss += loss.item()
AddLoss ==
    /\ pc = "backward_done"
    /\ pc' = "accumulated"
    /\ \E loss \in LossValues : epoch_loss' = epoch_loss + loss
    /\ UNCHANGED <<cfgvars, calls, log_count, last_record, countvars, freezevars,
                   stepvars, filevars, exitvars>>

\* the update is applied with the learning rate of the next schedule index
OptimizerStep_next_factor ==
    /\ pc = "accumulated"
    /\ StepDue(global_step)
    /\ pc' = "stepped"
    /\ opt_steps' = opt_steps + 1
    /\ updates' = updates
                    + (IF burnin_schedule(LambdaLRNextIndex(last_epoch))[1] = 0
                       THEN 0 ELSE 1)
    /\ calls' = Append(calls, "optimizer.step")
    /\ UNCHANGED <<pending, zero_grads, last_epoch, lr_factor>>
    /\ UNCHANGED <<cfgvars, epoch_loss, log_count, last_record, countvars, freezevars,
                   filevars, exitvars>>

\* the gradients are cleared with the optimizer step, before the schedule advance
OptimizerStep_clears ==
    /\ pc = "accumulated"
    /\ StepDue(global_step)
    /\ pc' = "stepped"
    /\ opt_steps' = opt_steps + 1
    /\ updates' = updates + (IF lr_factor[1] = 0 THEN 0 ELSE 1)
    /\ pending' = 0
    /\ zero_grads' = zero_grads + 1
    /\ calls' = calls \o <<"optimizer.step", "model.zero_grad">>
    /\ UNCHANGED <<last_epoch, lr_factor>>
    /\ UNCHANGED <<cfgvars, epoch_loss, log_count, last_record, countvars, freezevars,
                   filevars, exitvars>>

\* if global_step % config.subdivisions == 0: optimizer.step()
OptimizerStep ==
    /\ pc = "accumulated"
    /\ StepDue(global_step)
    /\ pc' = "stepped"
    /\ opt_steps' = opt_steps + 1
    /\ updates' = updates + (IF lr_factor[1] = 0 THEN 0 ELSE 1)
    /\ calls' = Append(calls, "optimizer.step")
    /\ UNCHANGED <<pending, zero_grads, last_epoch, lr_factor>>
    /\ UNCHANGED <<cfgvars, epoch_loss, log_count, last_record, countvars, freezevars,
                   filevars, exitvars>>

\* scheduler.step()
ScheduleAdvance ==
    /\ pc = "stepped"
    /\ pc' = "scheduled"
    /\ last_epoch' = LambdaLRNextIndex(last_epoch)
    /\ lr_factor' = burnin_schedule(LambdaLRNextIndex(last_epoch))
    /\ calls' = Append(calls, "scheduler.step")
    /\ UNCHANGED <<pending, opt_steps, zero_grads, updates>>
    /\ UNCHANGED <<cfgvars, epoch_loss, log_count, last_record, countvars, freezevars,
                   filevars, exitvars>>

\* model.zero_grad()
ZeroGrad ==
    /\ pc = "scheduled"
    /\ pc' = "cleared"
    /\ pending' = 0
    /\ zero_grads' = zero_grads + 1
    /\ calls' = Append(calls, "model.zero_grad")
    /\ UNCHANGED <<opt_steps, updates, last_epoch, lr_factor>>
    /\ UNCHANGED <<cfgvars, epoch_loss, log_count, last_record, countvars, freezevars,
                   filevars, exitvars>>

\* the test of the logging condition and, when it holds, the progress record;
\* it follows the optimizer block, taken or not
ProgressRecord ==
    /\ \/ pc = "cleared"
       \/ pc = "accumulated" /\ ~StepDue(global_step)
    /\ pc' = "batch_loop"
    /\ IF LogDue(global_step)
       THEN /\ log_count' = log_count + 1
            /\ last_record' = <<Record(global_step, lr_factor)>>
            /\ calls' = Append(calls, "logging.debug")
       ELSE UNCHANGED <<log_count, last_record, calls>>
    /\ UNCHANGED <<cfgvars, epoch_loss, countvars, freezevars, stepvars, filevars,
                   exitvars>>

(***************************************************************************)
(* The end of an epoch: torch.save of the epoch checkpoint, the record,    *)
(* the rotation.  While torch.save runs the file is there and incomplete.  *)
(***************************************************************************)
save_path == epoch + 1

\* the loader is exhausted
EpochEnd == pc = "batch_loop" /\ epoch_step = batches_per_epoch

\* torch.save has opened the file
BeginSave ==
    /\ EpochEnd
    /\ pc' = "saving"
    /\ disk' = Write(disk, save_path, File(FALSE, opt_steps))
    /\ UNCHANGED <<saved_models, model_to_remove, remove_failed, write_errors>>
    /\ UNCHANGED <<cfgvars, loopvars, countvars, freezevars, stepvars, exitvars>>

\* the failure of torch.save is caught and the loop goes on to the next epoch
SaveFails_swallowed ==
    /\ EpochEnd \/ pc = "saving"
    /\ write_errors' = write_errors \cup {save_path}
    /\ pc' = "epoch_loop"
    /\ epoch' = epoch + 1
    /\ UNCHANGED <<global_step, epoch_step>>
    /\ UNCHANGED <<saved_models, model_to_remove, disk, remove_failed>>
    /\ UNCHANGED <<cfgvars, loopvars, freezevars, stepvars, exitvars>>

\* torch.save raises, before it has created the file (the checkpoint directory
\* could not be made) or while it writes: the exception leaves train() and
\* ends the process
SaveFails ==
    /\ EpochEnd \/ pc = "saving"
    /\ write_errors' = write_errors \cup {save_path}
    /\ pc' = "crashed"
    /\ UNCHANGED <<saved_models, model_to_remove, disk, remove_failed>>
    /\ UNCHANGED <<cfgvars, loopvars, countvars, freezevars, stepvars, exitvars>>

\* torch.save returns
FinishSave ==
    /\ pc = "saving"
    /\ pc' = "saved"
    /\ disk' = Write(disk, save_path, File(TRUE, opt_steps))
    /\ UNCHANGED <<saved_models, model_to_remove, remove_failed, write_errors>>
    /\ UNCHANGED <<cfgvars, loopvars, countvars, freezevars, stepvars, exitvars>>

Appended == Append(saved_models, save_path)

\* saved_models.append(save_path), then the test of the eviction
AppendPath ==
    /\ pc = "saved"
    /\ saved_models' = Appended
    /\ IF EvictDue(Len(Appended))
       THEN pc' = "evict" /\ epoch' = epoch
       ELSE pc' = "epoch_loop" /\ epoch' = epoch + 1
    /\ UNCHANGED <<global_step, epoch_step>>
    /\ UNCHANGED <<model_to_remove, disk, remove_failed, write_errors>>
    /\ UNCHANGED <<cfgvars, loopvars, freezevars, stepvars, exitvars>>

\* model_to_remove = saved_models.popleft()
PopLeft ==
    /\ pc = "evict"
    /\ pc' = "popped"
    /\ model_to_remove' = <<Head(saved_models)>>
    /\ saved_models' = Tail(saved_models)
    /\ UNCHANGED <<disk, remove_failed, write_errors>>
    /\ UNCHANGED <<cfgvars, loopvars, countvars, freezevars, stepvars, exitvars>>

\* os.remove(model_to_remove) deletes the file
RemoveFile ==
    /\ pc = "popped"
    /\ pc' = "epoch_loop"
    /\ epoch' = epoch + 1
    /\ disk' = Remove(disk, model_to_remove[1])
    /\ UNCHANGED <<global_step, epoch_step>>
    /\ UNCHANGED <<saved_models, model_to_remove, remove_failed, write_errors>>
    /\ UNCHANGED <<cfgvars, loopvars, freezevars, stepvars, exitvars>>

\* the failure of os.remove is not caught: it ends the process
RemoveFails_raises ==
    /\ pc = "popped"
    /\ pc' = "crashed"
    /\ UNCHANGED filevars
    /\ UNCHANGED <<cfgvars, loopvars, countvars, freezevars, stepvars, exitvars>>

\* os.remove raises OSError: the bare except catches it
RemoveFails ==
    /\ pc = "popped"
    /\ pc' = "caught"
    /\ UNCHANGED filevars
    /\ UNCHANGED <<cfgvars, loopvars, countvars, freezevars, stepvars, exitvars>>

\* logging.info('failed to remove ...') in the except clause, then the next
\* epoch
LogRemoveFailure ==
    /\ pc = "caught"
    /\ pc' = "epoch_loop"
    /\ epoch' = epoch + 1
    /\ remove_failed' = remove_failed \cup {model_to_remove[1]}
    /\ UNCHANGED <<global_step, epoch_step>>
    /\ UNCHANGED <<saved_models, model_to_remove, disk, write_errors>>
    /\ UNCHANGED <<cfgvars, loopvars, freezevars, stepvars, exitvars>>

(***************************************************************************)
(* KeyboardInterrupt.  Raised inside the try of the rotation it is caught  *)
(* by the bare except there, before os.remove has deleted the file or      *)
(* after: the except clause is entered as it is on a failure of os.remove, *)
(* and when its logging.info has run the run goes on.  Raised anywhere     *)
(* else inside train(), the except clause included, it reaches the handler *)
(* of __main__, which saves the model to INTERRUPTED.pth and exits the     *)
(* process; the handler is not protected: its torch.save can raise, and a  *)
(* second interrupt ends the process by the exception.                     *)
(***************************************************************************)
InterruptInRemove ==
    /\ pc = "popped"
    /\ pc' = "caught"
    /\ interrupts' = interrupts + 1
    /\ \E removed \in BOOLEAN :
          disk' = IF removed THEN Remove(disk, model_to_remove[1]) ELSE disk
    /\ UNCHANGED <<saved_models, model_to_remove, remove_failed, write_errors>>
    /\ UNCHANGED <<interrupted, emergency_saves>>
    /\ UNCHANGED <<cfgvars, loopvars, countvars, freezevars, stepvars>>

\* the statements of train() from which an interrupt reaches the handler; at
\* "popped" it does when it is raised before the try is entered, at "caught"
\* when it is raised before logging.info has emitted the record
InTrain ==
    pc \in {"train", "epoch_loop", "reset", "freeze", "batch_loop", "counted",
            "forward", "backward_done", "accumulated", "stepped", "scheduled",
            "cleared", "saving", "saved", "evict", "popped", "caught"}

KeyboardInterrupt ==
    /\ InTrain
    /\ pc' = "handler"
    /\ interrupts' = interrupts + 1
    /\ UNCHANGED <<interrupted, emergency_saves>>
    /\ UNCHANGED <<cfgvars, loopvars, countvars, freezevars, stepvars, filevars>>

\* torch.save(model.state_dict(), 'INTERRUPTED.pth'), then the exit
EmergencySave ==
    /\ pc = "handler"
    /\ pc' = "exited"
    /\ interrupted' = <<opt_steps>>
    /\ emergency_saves' = emergency_saves + 1
    /\ UNCHANGED interrupts
    /\ UNCHANGED <<cfgvars, loopvars, countvars, freezevars, stepvars, filevars>>

\* the handler is left on an exception: the emergency torch.save raises or is
\* interrupted (nothing usable is written), or an interrupt comes after it
\* has returned and before os._exit
HandlerFails ==
    /\ pc = "handler"
    /\ pc' = "crashed"
    /\ \E written \in BOOLEAN :
          IF written
          THEN /\ interrupted' = <<opt_steps>>
               /\ emergency_saves' = emergency_saves + 1
          ELSE UNCHANGED <<interrupted, emergency_saves>>
    /\ UNCHANGED interrupts
    /\ UNCHANGED <<cfgvars, loopvars, countvars, freezevars, stepvars, filevars>>

Next ==
    \/ TrainSetup
    \/ EpochStart
    \/ ResetEpochStep
    \/ FreezeParam
    \/ TrainReturn
    \/ NextBatch
    \/ CountEpochStep
    \/ Backward
    \/ AddLoss
    \/ OptimizerStep
    \/ ScheduleAdvance
    \/ ZeroGrad
    \/ ProgressRecord
    \/ BeginSave
    \/ SaveFails
    \/ FinishSave
    \/ AppendPath
    \/ PopLeft
    \/ RemoveFile
    \/ RemoveFails
    \/ InterruptInRemove
    \/ LogRemoveFailure
    \/ KeyboardInterrupt
    \/ EmergencySave
    \/ HandlerFails

Spec == Init /\ [][Next]_vars

(***************************************************************************)
(* Runs long enough for progress records: log_step is 20, so a record      *)
(* needs 20 * subdivisions micro-batches; the dataset gives 20 micro-      *)
(* batches to the epoch.                                                   *)
(***************************************************************************)
InitLog ==
    /\ config \in {c \in Configs(RunSteps) :
                      /\ c.keep_checkpoint_max = 1
                      /\ c.burn_in = MaxBurnIn
                      /\ c.batch >= c.subdivisions}
    /\ epochs \in 0..MaxLogEpochs
    /\ n_train = DefaultLogStep * micro_batch_size
    /\ device_count = 1
    /\ log_step = DefaultLogStep
    /\ TrainEntry

SpecLog == InitLog /\ [][Next]_vars

(***************************************************************************)
(* The scheduler alone: LambdaLR built over burnin_schedule for every      *)
(* burn_in and every steps pair, and stepped.                              *)
(***************************************************************************)
AllSteps == {Steps(a, b) : a \in 0..MaxStep, b \in 0..MaxStep}

ScheduleConfigs ==
    {c \in Configs(AllSteps) :
        /\ c.batch = 1
        /\ c.subdivisions = 1
        /\ c.keep_checkpoint_max = 0
        /\ ~c.pretrained}

InitSchedule ==
    /\ config \in ScheduleConfigs
    /\ epochs = 0
    /\ n_train = 0
    /\ device_count = 1
    /\ pc = "schedule"
    /\ epoch = 0
    /\ global_step = 0
    /\ epoch_step = 0
    /\ requires_grad = [p \in Params |-> TRUE]
    /\ params_left = <<>>
    /\ pending = 0
    /\ opt_steps = 0
    /\ zero_grads = 0
    /\ updates = 0
    /\ last_epoch = LambdaLRInitialIndex
    /\ lr_factor = burnin_schedule(LambdaLRInitialIndex)
    /\ saved_models = <<>>
    /\ model_to_remove = <<>>
    /\ disk = <<>>
    /\ interrupted = <<>>
    /\ emergency_saves = 0
    /\ interrupts = 0
    /\ remove_failed = {}
    /\ write_errors = {}
    /\ log_step = DefaultLogStep
    /\ calls = <<>>
    /\ epoch_loss = 0
    /\ log_count = 0
    /\ last_record = <<>>
    /\ conversion = NoConversion

SchedulerStep ==
    /\ pc = "schedule"
    /\ last_epoch < MaxIndex
    /\ last_epoch' = LambdaLRNextIndex(last_epoch)
    /\ lr_factor' = burnin_schedule(LambdaLRNextIndex(last_epoch))
    /\ UNCHANGED <<pending, opt_steps, zero_grads, updates>>
    /\ UNCHANGED <<cfgvars, loopvars, countvars, freezevars, filevars, exitvars, pc>>

NextSchedule == SchedulerStep

SpecSchedule == InitSchedule /\ [][NextSchedule]_vars

(***************************************************************************)
(* src/data/convert_annotations.py.  collect_and_rename() walks the        *)
(* sub-directories of image_dir and copies every file, with its annotation *)
(* file, to images/ and labels/ under the number of its sub-directory.     *)
(* convert_labels() lists images/ and writes the two manifests.            *)
(*                                                                         *)
(* A name of images/ is a stem and the parts that follow its dots:         *)
(* 1.jpg, 1.jpg.bak, 1.txt, and one name without a dot.  The loop takes a  *)
(* name for an image when the part after the first dot is jpg, and opens   *)
(* stem.txt for its labels.  A label file that exists cannot be opened     *)
(* ("unreadable"), cannot be decoded from its first read on                *)
(* ("undecodable"), is empty, or holds lines; the first line that does not *)
(* convert decides the class: fewer than five fields, such as a blank line *)
(* ("short"), a field float() rejects ("nonnumeric"), a corner that is     *)
(* infinite ("infinite") or not a number ("nan") when int() is applied, or *)
(* the lines of a later read, which cannot be decoded when the lines       *)
(* before them have been converted ("undecodable_later"); "lines" when     *)
(* every line converts.                                                    *)
(* cv2.imread reads an image or returns None.                              *)
(***************************************************************************)
trainvars ==
    <<config, epochs, n_train, device_count, log_step, pc, loopvars, countvars,
      freezevars, stepvars, filevars, exitvars>>

Stems == {1, 2}

Names ==
    [stem : Stems, parts : {<<"jpg">>, <<"jpg", "bak">>, <<"txt">>}]
    \cup {[stem |-> 1, parts |-> <<>>]}

Contents ==
    {"unreadable", "undecodable", "empty", "lines", "short", "nonnumeric",
     "infinite", "nan", "undecodable_later"}

\* file_name.split('.')[1] == 'jpg', where the name has a dot
IsJpg(name) == name.parts[1] = "jpg"

\* f'{data_folder}/{file_name}'.split('.')[0] + '.txt'
LabelFile(name) == [stem |-> name.stem, parts |-> <<"txt">>]

TxtStems(directory) == {name.stem : name \in {m \in directory : m.parts = <<"txt">>}}

Images(directory) == {name \in directory : name.parts # <<>> /\ IsJpg(name)}

\* the orders random.shuffle can give to os.listdir
Orderings(names) ==
    {p \in [1..Cardinality(names) -> names] :
        \A a, b \in 1..Cardinality(names) : a # b => p[a] # p[b]}

\* int(len(os.listdir(data_folder)) / 2)
number_images == Cardinality(conversion.directory) \div 2

\* int(number_images * (1 - validation_split)), validation_split = 0.10
train_size == (number_images * 9) \div 10

\* the label file the loop opens for an image
Label(name) ==
    IF LabelFile(name) \in conversion.directory
    THEN conversion.content[name.stem]
    ELSE "missing"

\* image_dir: its sub-directories in the order of os.walk, each the sequence
\* of its files; a file has its annotation file in annotation_dir or not
Subdirs ==
    UNION {[1..n -> BOOLEAN] : n \in 0..MaxFiles}

Sources ==
    UNION {[1..n -> Subdirs] : n \in 0..MaxSubdirs}

IdleConversion ==
    [pc |-> "none", error |-> "", backslash |-> FALSE, images_dir |-> TRUE,
     labels_dir |-> TRUE, writable |-> TRUE, source |-> <<>>, dir |-> 0, file |-> 1,
     directory |-> {}, content |-> <<>>, readable |-> {}, labels |-> {},
     copied |-> 0, files |-> <<>>, next |-> 1, processed |-> 0,
     train |-> <<>>, val |-> <<>>]

InitConvert ==
    /\ config \in {c \in ScheduleConfigs : c.burn_in = 0 /\ c.steps = Steps(0, 0)}
    /\ epochs = 0
    /\ n_train = 0
    /\ device_count = 1
    /\ log_step = DefaultLogStep
    /\ pc = "convert"
    /\ epoch = 0
    /\ global_step = 0
    /\ epoch_step = 0
    /\ requires_grad = [p \in Params |-> TRUE]
    /\ params_left = <<>>
    /\ pending = 0
    /\ opt_steps = 0
    /\ zero_grads = 0
    /\ updates = 0
    /\ last_epoch = -1
    /\ lr_factor = <<1, 1>>
    /\ saved_models = <<>>
    /\ model_to_remove = <<>>
    /\ disk = <<>>
    /\ interrupted = <<>>
    /\ emergency_saves = 0
    /\ interrupts = 0
    /\ remove_failed = {}
    /\ write_errors = {}
    /\ calls = <<>>
    /\ epoch_loss = 0
    /\ log_count = 0
    /\ last_record = <<>>
    /\ \/ \E directory \in {d \in SUBSET Names : Cardinality(d) <= MaxEntries} :
          \E content \in [TxtStems(directory) -> Contents] :
          \E readable \in SUBSET Images(directory) : \E writable \in BOOLEAN :
             conversion = [IdleConversion EXCEPT
                              !.pc = "start",
                              !.writable = writable,
                              !.directory = directory,
                              !.content = content,
                              !.readable = readable]
       \/ \E images_dir, writable \in BOOLEAN :
             conversion = [IdleConversion EXCEPT
                              !.pc = "start",
                              !.images_dir = images_dir,
                              !.writable = writable]
       \/ \E source \in Sources : \E backslash, images_dir, labels_dir \in BOOLEAN :
             conversion = [IdleConversion EXCEPT
                              !.pc = "collect",
                              !.source = source,
                              !.backslash = backslash,
                              !.images_dir = images_dir,
                              !.labels_dir = labels_dir]

Abort(at, error) == [conversion EXCEPT !.pc = at, !.error = error]

\* the next sub-directory of os.walk (the first entry, image_dir itself, is
\* passed over): subdir.split('\\')[1] is its name where the path separator
\* is the backslash, and raises IndexError where it is not
CollectSubdir ==
    /\ conversion.pc = "collect"
    /\ conversion.dir < Len(conversion.source)
    /\ IF ~conversion.backslash
       THEN conversion' = Abort("collect_aborted", "IndexError")
       ELSE conversion' = [conversion EXCEPT !.pc = "copy", !.file = 1]
    /\ UNCHANGED trainvars

\* '%06d' % i + '.jpg', the target of every file of sub-directory i
Target == [stem |-> conversion.dir, parts |-> <<"jpg">>]

\* one pass of "for file_name in files": the image and its annotation file
\* are opened and copied to images/ and labels/ under the number of the
\* sub-directory; the copy is an image cv2.imread can read, or not
CollectFile ==
    /\ conversion.pc = "copy"
    /\ conversion.file <= Len(conversion.source[conversion.dir + 1])
    /\ \E image \in BOOLEAN :
       LET copied == [conversion EXCEPT
                         !.directory = @ \cup {Target},
                         !.readable = IF image THEN @ \cup {Target} ELSE @ \ {Target}]
       IN
       IF ~conversion.source[conversion.dir + 1][conversion.file]
       THEN \* open() of the annotation file raises
            conversion' = Abort("collect_aborted", "FileNotFoundError")
       ELSE IF ~conversion.images_dir
       THEN \* shutil.copy2 into images/ raises
            conversion' = Abort("collect_aborted", "FileNotFoundError")
       ELSE IF ~conversion.labels_dir
       THEN \* the image is copied, shutil.copy2 into labels/ raises
            conversion' = [copied EXCEPT
                              !.pc = "collect_aborted",
                              !.error = "FileNotFoundError"]
       ELSE conversion' = [copied EXCEPT
                              !.labels = @ \cup {conversion.dir},
                              !.copied = @ + 1,
                              !.file = @ + 1]
    /\ UNCHANGED trainvars

\* the files of the sub-directory are exhausted
CollectNextSubdir ==
    /\ conversion.pc = "copy"
    /\ conversion.file > Len(conversion.source[conversion.dir + 1])
    /\ conversion' = [conversion EXCEPT !.pc = "collect", !.dir = @ + 1]
    /\ UNCHANGED trainvars

\* os.walk is exhausted
CollectReturn ==
    /\ conversion.pc = "collect"
    /\ conversion.dir = Len(conversion.source)
    /\ conversion' = [conversion EXCEPT !.pc = "collected"]
    /\ UNCHANGED trainvars

\* convert_labels() up to its loop, on images/ as it is found or as
\* collect_and_rename() has left it: os.listdir raises FileNotFoundError when
\* images/ does not exist, before the manifests are opened; open() of the
\* manifests raises PermissionError when they cannot be written
ConvertStart ==
    /\ conversion.pc \in {"start", "collected"}
    /\ IF ~conversion.images_dir
       THEN conversion' = Abort("aborted", "FileNotFoundError")
       ELSE IF ~conversion.writable
       THEN conversion' = Abort("aborted", "PermissionError")
       ELSE \E p \in Orderings(conversion.directory) :
               conversion' = [conversion EXCEPT !.pc = "loop", !.files = p]
    /\ UNCHANGED trainvars

\* one pass of "for file_name in files"
ConvertFile ==
    /\ conversion.pc = "loop"
    /\ conversion.next <= Len(conversion.files)
    /\ LET file_name == conversion.files[conversion.next]
           passed == [conversion EXCEPT !.processed = @ + 1, !.next = @ + 1]
       IN
       IF file_name.parts = <<>>
       THEN \* file_name.split('.')[1] raises IndexError
            conversion' = Abort("aborted", "IndexError")
       ELSE IF ~IsJpg(file_name)
       THEN conversion' = [conversion EXCEPT !.next = @ + 1]
       ELSE IF Label(file_name) = "missing"
       THEN \* open() of the label file raises FileNotFoundError
            conversion' = Abort("aborted", "FileNotFoundError")
       ELSE IF Label(file_name) = "unreadable"
       THEN \* open() of the label file raises PermissionError (IsADirectoryError
            \* when the name is a directory)
            conversion' = Abort("aborted", "PermissionError")
       ELSE IF Label(file_name) = "undecodable"
       THEN \* "for line in label_file" raises UnicodeDecodeError on its first
            \* read, before any line is taken
            conversion' = Abort("aborted", "UnicodeDecodeError")
       ELSE IF Label(file_name) = "empty"
       THEN conversion' = passed
       ELSE IF file_name \notin conversion.readable
       THEN \* cv2.imread returned None: img.shape raises AttributeError
            conversion' = Abort("aborted", "AttributeError")
       ELSE IF Label(file_name) = "short"
       THEN \* float(line[k]) raises IndexError
            conversion' = Abort("aborted", "IndexError")
       ELSE IF Label(file_name) = "nonnumeric"
       THEN \* float(line[k]) raises ValueError
            conversion' = Abort("aborted", "ValueError")
       ELSE IF Label(file_name) = "infinite"
       THEN \* int() of an infinity raises OverflowError
            conversion' = Abort("aborted", "OverflowError")
       ELSE IF Label(file_name) = "nan"
       THEN \* int() of nan raises ValueError
            conversion' = Abort("aborted", "ValueError")
       ELSE IF Label(file_name) = "undecodable_later"
       THEN \* the lines of the first read are converted, "for line in
            \* label_file" raises UnicodeDecodeError on a later read
            conversion' = Abort("aborted", "UnicodeDecodeError")
       ELSE IF conversion.processed < train_size
       THEN conversion' = [passed EXCEPT !.train = Append(@, file_name)]
       ELSE conversion' = [passed EXCEPT !.val = Append(@, file_name)]
    /\ UNCHANGED trainvars

\* the list is exhausted: the manifests are closed
ConvertReturn ==
    /\ conversion.pc = "loop"
    /\ conversion.next > Len(conversion.files)
    /\ conversion' = [conversion EXCEPT !.pc = "done"]
    /\ UNCHANGED trainvars

NextConvert ==
    \/ CollectSubdir
    \/ CollectFile
    \/ CollectNextSubdir
    \/ CollectReturn
    \/ ConvertStart
    \/ ConvertFile
    \/ ConvertReturn

SpecConvert == InitConvert /\ [][NextConvert]_vars

(***************************************************************************)
(* Helpers of the properties.                                              *)
(***************************************************************************)
Range(s) == {s[j] : j \in DOMAIN s}

Min(a, b) == IF a < b THEN a ELSE b

\* inside the body of a micro-batch
InBody ==
    pc \in {"counted", "forward", "backward_done", "accumulated", "stepped",
            "scheduled", "cleared"}

\* the statements of the end of an epoch, from torch.save to the except clause
\* of the rotation
AtSave == pc \in {"saving", "saved", "evict", "popped", "caught"}

\* between two micro-batches, after the scheduler was built
AtBoundary == pc \in {"epoch_loop", "reset", "freeze", "batch_loop", "done"} \/ AtSave

\* in epoch e, after its head: the micro-batches and the checkpoint
InEpoch(e) == (pc = "batch_loop" \/ InBody \/ AtSave) /\ epoch = e

\* the process has left train() on an exception
Left == pc \in {"handler", "exited", "crashed"}

(***************************************************************************)
(* C1: counting micro-batches from the start of the run, across epochs,    *)
(* after n processed micro-batches exactly n div subdivisions optimizer    *)
(* steps and as many gradient clears have happened: they fire on the       *)
(* s-th, 2s-th, ... micro-batch and on no other.                           *)
(***************************************************************************)
C1_State ==
    AtBoundary =>
        /\ opt_steps = global_step \div config.subdivisions
        /\ zero_grads = global_step \div config.subdivisions
        /\ pending = global_step % config.subdivisions

C1_Step ==
    /\ opt_steps' # opt_steps =>
          /\ pc = "accumulated"
          /\ global_step % config.subdivisions = 0
          /\ pending = config.subdivisions
          /\ opt_steps' = opt_steps + 1
    /\ zero_grads' # zero_grads =>
          /\ pc = "scheduled"
          /\ global_step % config.subdivisions = 0
          /\ zero_grads' = zero_grads + 1
          /\ opt_steps = zero_grads'

C1_AccumulationCadence == [](C1_State) /\ [][C1_Step]_vars

\* a step fired on the first micro-batch of the second epoch
C1_Witness ==
    /\ pc = "batch_loop"
    /\ config.subdivisions = 2
    /\ batches_per_epoch = 3
    /\ epoch = 1
    /\ epoch_step = 1
    /\ opt_steps = 2
    /\ zero_grads = 2

(***************************************************************************)
(* C2 as stated: after N completed epochs the files on storage are the     *)
(* newest min(N, k) epoch checkpoints when k > 0, and all N when k <= 0,   *)
(* also when a deletion failed.                                            *)
(***************************************************************************)
Kept == IF config.keep_checkpoint_max > 0
        THEN Min(epoch, config.keep_checkpoint_max)
        ELSE epoch

C2_Original ==
    pc \in {"epoch_loop", "done"} => DOMAIN disk = (epoch - Kept + 1)..epoch

(***************************************************************************)
(* C2 amended: after N completed epochs the checkpoint record holds the    *)
(* newest min(N, k) epochs when k > 0 and all N when k <= 0, every         *)
(* recorded file is complete on storage, and every other file on storage   *)
(* is an older checkpoint whose removal was logged as failed: exactly      *)
(* min(N, k) files remain when no removal was logged as failed.            *)
(***************************************************************************)
C2_Rotation ==
    pc \in {"epoch_loop", "done"} =>
        /\ saved_models = [j \in 1..Kept |-> epoch - Kept + j]
        /\ Range(saved_models) \subseteq DOMAIN disk
        /\ DOMAIN disk \subseteq Range(saved_models) \cup remove_failed
        /\ \A f \in Range(saved_models) : disk[f].complete
        /\ remove_failed \subseteq 1..(epoch - Kept)
        /\ remove_failed = {} => Cardinality(DOMAIN disk) = Kept

\* three epochs with k = 1: the first deletion failed, the second succeeded
C2_Witness ==
    /\ pc = "done"
    /\ epoch = 3
    /\ config.keep_checkpoint_max = 1
    /\ interrupts = 0
    /\ remove_failed = {1}
    /\ DOMAIN disk = {1, 3}
    /\ saved_models = <<3>>

(***************************************************************************)
(* C3 as stated: the index the scheduler passes to burnin_schedule equals  *)
(* global_step, whatever subdivisions is.                                  *)
(***************************************************************************)
C3_Original == AtBoundary => last_epoch = global_step

(***************************************************************************)
(* C3 amended: the index the scheduler passes to burnin_schedule is the    *)
(* number of optimizer steps applied so far, global_step div subdivisions, *)
(* and the factor in effect is the schedule at that index; the index is    *)
(* global_step only when subdivisions = 1.                                 *)
(***************************************************************************)
C3_ScheduleIndex ==
    /\ AtBoundary =>
          /\ last_epoch = global_step \div config.subdivisions
          /\ last_epoch = opt_steps
          /\ lr_factor = burnin_schedule(global_step \div config.subdivisions)
          /\ config.subdivisions = 1 => last_epoch = global_step
    /\ InBody => lr_factor = burnin_schedule(last_epoch)

C3_Witness ==
    /\ pc = "batch_loop"
    /\ config.subdivisions = 2
    /\ global_step = 4
    /\ last_epoch = 2

(***************************************************************************)
(* C4: with pretrained weights every backbone parameter is non-trainable   *)
(* throughout epoch 0 and trainable throughout every later epoch, and a    *)
(* backbone parameter becomes trainable only at the start of epoch 1 and   *)
(* is never frozen again; without pretrained weights every parameter is    *)
(* trainable in every epoch.                                               *)
(***************************************************************************)
C4_State ==
    /\ freeze_backbone /\ InEpoch(0) => \A p \in Backbone : ~requires_grad[p]
    /\ freeze_backbone /\ epoch >= 1 /\ InEpoch(epoch)
           => \A p \in Backbone : requires_grad[p]
    /\ ~freeze_backbone => \A p \in Params : requires_grad[p]

C4_Step ==
    /\ (\E p \in Backbone : ~requires_grad[p] /\ requires_grad'[p])
           => pc = "freeze" /\ epoch = 1
    /\ (\E p \in Backbone : requires_grad[p] /\ ~requires_grad'[p])
           => pc = "freeze" /\ epoch = 0

C4_BackboneFreeze == [](C4_State) /\ [][C4_Step]_vars

\* the third epoch of a run with pretrained weights: the backbone is trainable
C4_Witness ==
    /\ freeze_backbone
    /\ InEpoch(2)
    /\ epoch_step = 1
    /\ \A p \in Backbone : requires_grad[p]

(***************************************************************************)
(* C5: an interrupt at any point of the run takes the process out of       *)
(* train(): no micro-batch and no epoch runs after it, and when the        *)
(* process has exited INTERRUPTED.pth has been written exactly once, with  *)
(* the current model state.                                                *)
(***************************************************************************)
C5_Interrupt ==
    /\ interrupts > 0 => Left
    /\ pc = "exited" => emergency_saves = 1 /\ interrupted = <<opt_steps>>

(***************************************************************************)
(* C6 as stated: for every burn_in and every steps pair, the factor at     *)
(* every index i >= steps[1] is 0.01.                                      *)
(***************************************************************************)
C6_Original ==
    last_epoch >= 0 /\ last_epoch >= config.steps[1] => lr_factor = <<1, 100>>

(***************************************************************************)
(* C6 amended: the factor is 0.01 at every index i >= steps[1] that is     *)
(* also >= burn_in and >= steps[0]; below burn_in the warm-up branch, and  *)
(* below steps[0] the factor 1.0, are taken first.                         *)
(***************************************************************************)
C6_FinalFactor ==
    /\ last_epoch >= 0
    /\ last_epoch >= config.steps[1]
    /\ last_epoch >= config.steps[0]
    /\ last_epoch >= config.burn_in
    => lr_factor = <<1, 100>>

C6_Witness ==
    /\ pc = "schedule"
    /\ config.burn_in = 2
    /\ config.steps = Steps(1, 3)
    /\ last_epoch = 3
    /\ lr_factor = <<1, 100>>

(***************************************************************************)
(* C7: for burn_in > 0 and 0 <= i < burn_in the factor is (i / burn_in)^4: *)
(* 0 at i = 0, below 1, and never smaller than at the index before.        *)
(***************************************************************************)
C7_State ==
    config.burn_in > 0 /\ 0 <= last_epoch /\ last_epoch < config.burn_in =>
        /\ lr_factor[2] > 0
        /\ lr_factor[1] * config.burn_in * config.burn_in * config.burn_in * config.burn_in
              = last_epoch * last_epoch * last_epoch * last_epoch * lr_factor[2]
        /\ last_epoch = 0 => lr_factor = <<0, 1>>
        /\ RatLess(lr_factor, <<1, 1>>)

C7_Step ==
    config.burn_in > 0 /\ 0 <= last_epoch /\ last_epoch' < config.burn_in =>
        RatLeq(lr_factor, lr_factor')

C7_BurnIn == [](C7_State) /\ [][C7_Step]_vars

C7_Witness ==
    /\ pc = "schedule"
    /\ config.burn_in = 2
    /\ last_epoch = 1
    /\ lr_factor = <<1, 16>>

(***************************************************************************)
(* C8 as stated: until the first optimizer step the learning rate is 0,    *)
(* so the first optimizer step changes no parameter.                       *)
(***************************************************************************)
C8_Original ==
    /\ last_epoch >= 0 /\ opt_steps = 0 => lr_factor = <<0, 1>>
    /\ opt_steps = 1 => updates = 0

(***************************************************************************)
(* C8 amended: when burn_in > 0, the scheduler is at index 0 with factor 0 *)
(* until the first optimizer step, which therefore changes no parameter;   *)
(* the schedule is advanced only after an optimizer step, from index 1 on  *)
(* the factor is non-zero, and every later optimizer step is applied with  *)
(* a non-zero learning rate.  With burn_in = 0 the factor at index 0 is    *)
(* not 0.                                                                  *)
(***************************************************************************)
C8_ZeroStart ==
    /\ pc # "schedule" /\ config.burn_in > 0 =>
          /\ last_epoch >= 0 /\ opt_steps = 0 => last_epoch = 0 /\ lr_factor = <<0, 1>>
          /\ last_epoch >= 0 => last_epoch \in {opt_steps - 1, opt_steps}
          /\ last_epoch >= 1 => lr_factor[1] # 0
          /\ opt_steps >= 1 => updates = opt_steps - 1
    /\ config.burn_in = 0 /\ last_epoch >= 0 => lr_factor[1] # 0

C8_Witness ==
    /\ config.burn_in = 2
    /\ opt_steps = 1
    /\ updates = 0
    /\ lr_factor = <<1, 16>>

(***************************************************************************)
(* C9: when subdivisions does not divide batch, the run aborts before any  *)
(* micro-batch: no micro-batch is processed, no optimizer step is applied  *)
(* and no checkpoint is written.                                           *)
(***************************************************************************)
C9_AbortOnIndivisible ==
    config.batch % config.subdivisions # 0 =>
        /\ global_step = 0
        /\ opt_steps = 0
        /\ disk = <<>>

(***************************************************************************)
(* C10: when torch.save of an epoch checkpoint fails the run ends there:   *)
(* no step follows, the path of the failed write is not in the record,     *)
(* the record and the older files are as they were before the write, and   *)
(* no later epoch is started.                                              *)
(***************************************************************************)
WriteFailed == write_errors # {}

C10_State ==
    WriteFailed =>
        /\ pc = "crashed"
        /\ write_errors = {save_path}
        /\ save_path \notin Range(saved_models)
        /\ Range(saved_models) \subseteq 1..epoch
        /\ epoch < epochs
        /\ epoch_step = batches_per_epoch
        /\ global_step = (epoch + 1) * batches_per_epoch

C10_Step ==
    /\ pc = "crashed" => FALSE
    /\ write_errors' # write_errors =>
          /\ EpochEnd \/ pc = "saving"
          /\ saved_models' = saved_models
          /\ disk' = disk
          /\ remove_failed' = remove_failed
          /\ epoch' = epoch

C10_WriteFailureFatal == [](C10_State) /\ [][C10_Step]_vars

\* the write of the second epoch's checkpoint fails with k = 1: epoch 1's file stays
C10_Witness ==
    /\ WriteFailed
    /\ epoch = 1
    /\ epochs = 3
    /\ config.keep_checkpoint_max = 1
    /\ saved_models = <<1>>
    /\ 1 \in DOMAIN disk
    /\ disk[1].complete

(***************************************************************************)
(* C11: a failed deletion of the oldest checkpoint is logged and nothing   *)
(* else: the epoch ends as it does when the deletion succeeds (the path    *)
(* has left the record, the new checkpoint is written and recorded, the    *)
(* counters are untouched, the next epoch is up), the run never ends on    *)
(* it, and a run that returns has completed every configured epoch.        *)
(***************************************************************************)
C11_State ==
    pc = "done" =>
        /\ epoch = epochs
        /\ global_step = epochs * batches_per_epoch
        /\ saved_models = [j \in 1..Kept |-> epoch - Kept + j]

C11_Step ==
    /\ pc = "popped" => pc' \in {"epoch_loop", "caught", "handler"}
    /\ pc = "caught" => pc' \in {"epoch_loop", "handler"}
    /\ remove_failed' # remove_failed =>
          /\ pc = "caught"
          /\ pc' = "epoch_loop"
          /\ epoch' = epoch + 1
          /\ remove_failed' = remove_failed \cup {model_to_remove[1]}
          /\ model_to_remove[1] \notin Range(saved_models)
          /\ saved_models' = saved_models
          /\ saved_models[Len(saved_models)] = save_path
          /\ disk[save_path] = File(TRUE, opt_steps)
          /\ disk' = disk
          /\ <<global_step, epoch_step, opt_steps, zero_grads, pending, last_epoch>>'
                = <<global_step, epoch_step, opt_steps, zero_grads, pending, last_epoch>>

C11_DeleteFailureNonFatal == [](C11_State) /\ [][C11_Step]_vars

\* both deletions of a three-epoch run with k = 1 failed, and the run returned
C11_Witness ==
    /\ pc = "done"
    /\ epochs = 3
    /\ config.keep_checkpoint_max = 1
    /\ interrupts = 0
    /\ remove_failed = {1, 2}
    /\ saved_models = <<3>>
    /\ DOMAIN disk = {1, 2, 3}
    /\ batches_per_epoch = 2
    /\ global_step = 6

(***************************************************************************)
(* C12: a progress record is emitted on a micro-batch exactly when the     *)
(* global step is a multiple of log_step * subdivisions; it is emitted     *)
(* after the optimizer step and the schedule advance of that micro-batch,  *)
(* and its learning rate is schedule_factor * (learning_rate / batch) *    *)
(* batch for the factor the scheduler holds after that advance.            *)
(***************************************************************************)
LogPeriod == log_step * config.subdivisions

StepCalls == <<"optimizer.step", "scheduler.step", "model.zero_grad">>

FullBody == <<"loss.backward">> \o StepCalls \o <<"logging.debug">>

C12_State ==
    AtBoundary =>
        /\ log_count = global_step \div LogPeriod
        /\ (last_record = <<>>) = (log_count = 0)
        /\ last_record # <<>> =>
              /\ last_record[1].step = log_count * LogPeriod
              /\ last_record[1].lr
                    = RatMul(burnin_schedule(last_record[1].step \div config.subdivisions),
                             learning_rate)
        /\ global_step > 0 => (global_step % LogPeriod = 0) = (calls = FullBody)

C12_Step ==
    log_count' # log_count \/ last_record' # last_record =>
        /\ pc = "cleared"
        /\ calls = <<"loss.backward">> \o StepCalls
        /\ global_step % LogPeriod = 0
        /\ last_epoch = global_step \div config.subdivisions
        /\ log_count' = log_count + 1
        /\ last_record' = <<[step |-> global_step,
                             lr |-> RatMul(burnin_schedule(last_epoch), learning_rate)]>>

C12_ProgressRecord == [](C12_State) /\ [][C12_Step]_vars

\* the record of micro-batch 40 with 2 subdivisions: 20 schedule steps, factor 0.01
C12_Witness ==
    /\ pc = "batch_loop"
    /\ log_step = 20
    /\ config.subdivisions = 2
    /\ global_step = 40
    /\ log_count = 1
    /\ last_record = <<[step |-> 40, lr |-> <<1, 100000>>]>>

(***************************************************************************)
(* C14: whenever the emergency save is taken, no accumulated and unapplied *)
(* gradients are pending.                                                  *)
(***************************************************************************)
C14_NoPendingAtEmergencySave == emergency_saves > 0 => pending = 0

(***************************************************************************)
(* C15: on a micro-batch where the accumulation condition holds the loop   *)
(* body calls optimizer.step(), scheduler.step(), model.zero_grad() in     *)
(* that order with nothing in between, and on no other micro-batch; the    *)
(* gradients are cleared nowhere else: not at the start of an epoch, not   *)
(* at the freeze or unfreeze, not at the epoch-end checkpoint.             *)
(***************************************************************************)
C15_State ==
    /\ \E n \in 0..Len(FullBody) : calls = SubSeq(FullBody, 1, n)
    /\ AtBoundary /\ global_step > 0 =>
          (global_step % config.subdivisions = 0) = ("model.zero_grad" \in Range(calls))
    /\ AtBoundary /\ "optimizer.step" \in Range(calls) => "model.zero_grad" \in Range(calls)

C15_Step ==
    /\ opt_steps' # opt_steps =>
          /\ pc = "accumulated"
          /\ pc' = "stepped"
          /\ global_step % config.subdivisions = 0
          /\ calls' = <<"loss.backward", "optimizer.step">>
    /\ last_epoch' # last_epoch /\ pc # "train" =>
          /\ pc = "stepped"
          /\ pc' = "scheduled"
          /\ calls' = <<"loss.backward", "optimizer.step", "scheduler.step">>
    /\ zero_grads' # zero_grads \/ pending' < pending =>
          /\ pc = "scheduled"
          /\ pc' = "cleared"
          /\ calls' = <<"loss.backward">> \o StepCalls
          /\ zero_grads' = zero_grads + 1
          /\ pending' = 0
    /\ pc \in {"stepped", "scheduled"} => pc' \in {"scheduled", "cleared", "handler"}
    /\ pc \in {"epoch_loop", "reset", "freeze"} \/ AtSave =>
          pending' = pending /\ zero_grads' = zero_grads

C15_StepOrder == [](C15_State) /\ [][C15_Step]_vars

\* the second optimizer step of a run with pretrained weights, in epoch 1
C15_Witness ==
    /\ pc = "batch_loop"
    /\ epoch = 1
    /\ freeze_backbone
    /\ config.subdivisions = 2
    /\ zero_grads = 2
    /\ calls = <<"loss.backward">> \o StepCalls

(***************************************************************************)
(* C16: with keep_checkpoint_max = k > 0 the record holds the paths in     *)
(* creation order, oldest first, and never more than k of them at the end  *)
(* of an epoch; an epoch appends its one path at the back and evicts only  *)
(* from the front, and the single conditional eviction leaves the record   *)
(* that evicting while the length exceeds k would leave.                   *)
(***************************************************************************)
RECURSIVE EvictWhile(_, _)
EvictWhile(s, k) == IF Len(s) > k THEN EvictWhile(Tail(s), k) ELSE s

C16_State ==
    config.keep_checkpoint_max > 0 =>
        /\ pc \in {"epoch_loop", "reset", "freeze", "batch_loop", "done"} \/ InBody =>
              Len(saved_models) <= config.keep_checkpoint_max
        /\ \A a, b \in DOMAIN saved_models : a < b => saved_models[a] < saved_models[b]

C16_Step ==
    saved_models' # saved_models /\ config.keep_checkpoint_max > 0 =>
        \/ /\ pc = "saved"
           /\ saved_models' = Append(saved_models, epoch + 1)
           /\ pc' = "epoch_loop" =>
                 saved_models' = EvictWhile(saved_models', config.keep_checkpoint_max)
        \/ /\ pc = "evict"
           /\ saved_models' = Tail(saved_models)
           /\ saved_models' = EvictWhile(saved_models, config.keep_checkpoint_max)

C16_Record == [](C16_State) /\ [][C16_Step]_vars

C16_Witness ==
    /\ pc = "done"
    /\ epochs = 3
    /\ config.keep_checkpoint_max = 2
    /\ saved_models = <<2, 3>>

(***************************************************************************)
(* C17: global_step starts at 0, grows by exactly 1 on every micro-batch   *)
(* and changes nowhere else; epoch_step and epoch_loss are 0 at the start  *)
(* of every epoch; inside an epoch global_step is the steps of the epochs  *)
(* before plus epoch_step, and at the end of an epoch it is the sum of     *)
(* the step counts of all epochs run so far.                               *)
(***************************************************************************)
C17_State ==
    /\ pc = "train" => global_step = 0
    /\ pc \in {"freeze", "batch_loop"} \/ InBody \/ AtSave =>
          global_step = epoch * batches_per_epoch + epoch_step
                           + (IF pc = "counted" THEN 1 ELSE 0)
    /\ pc = "batch_loop" =>
          /\ epoch_step <= epoch_loss
          /\ epoch_step = 0 => epoch_loss = 0
    /\ AtSave => global_step = (epoch + 1) * batches_per_epoch
    /\ pc \in {"epoch_loop", "done"} => global_step = epoch * batches_per_epoch

C17_Step ==
    /\ global_step' # global_step =>
          /\ pc = "batch_loop"
          /\ pc' = "counted"
          /\ global_step' = global_step + 1
    /\ pc = "counted" /\ pc' = "forward" => epoch_step' = epoch_step + 1
    /\ pc = "backward_done" /\ pc' = "accumulated" => epoch_loss' > epoch_loss
    /\ pc = "epoch_loop" /\ pc' = "reset" => epoch_loss' = 0
    /\ pc = "reset" /\ pc' \in {"freeze", "batch_loop"} => epoch_step' = 0
    /\ global_step' >= global_step

C17_Counters == [](C17_State) /\ [][C17_Step]_vars

\* the start of the second epoch: the epoch counters are back at 0
C17_Witness ==
    /\ pc = "batch_loop"
    /\ epoch = 1
    /\ batches_per_epoch = 3
    /\ global_step = 3
    /\ epoch_step = 0
    /\ epoch_loss = 0

(***************************************************************************)
(* C18: the freeze leaves the head alone: the parameters of the head are   *)
(* trainable in every epoch, with and without the data-parallel wrapper.   *)
(***************************************************************************)
C18_HeadTrainable == requires_grad["head"]

(***************************************************************************)
(* C19: the cadence is not realigned at epoch boundaries: with B           *)
(* micro-batches per epoch, the checkpoint of epoch e holds the model      *)
(* after (e+1)*B div s optimizer steps while the gradients of the last     *)
(* (e+1)*B mod s micro-batches are accumulated and unapplied; the epoch    *)
(* boundary leaves them in place, the next optimizer step applies them     *)
(* together with the first micro-batches of the next epoch, s in all, and  *)
(* after the last epoch they are never applied.                            *)
(***************************************************************************)
C19_State ==
    /\ AtBoundary \/ InBody =>
          \A f \in DOMAIN disk :
             disk[f].state = (f * batches_per_epoch) \div config.subdivisions
    /\ AtSave =>
          /\ opt_steps = ((epoch + 1) * batches_per_epoch) \div config.subdivisions
          /\ pending = ((epoch + 1) * batches_per_epoch) % config.subdivisions
    /\ pc \in {"epoch_loop", "reset", "freeze", "done"} =>
          pending = (epoch * batches_per_epoch) % config.subdivisions

C19_Step ==
    /\ pc \in {"epoch_loop", "reset", "freeze"} \/ AtSave \/ pc' = "saving" =>
          pending' = pending
    /\ opt_steps' # opt_steps => pending = config.subdivisions
    /\ pending' < pending => pc = "scheduled" /\ pending' = 0

C19_NoRealignment == [](C19_State) /\ [][C19_Step]_vars

\* 3 micro-batches per epoch, 2 subdivisions: one gradient is carried into epoch 1
C19_Witness ==
    /\ pc = "epoch_loop"
    /\ epoch = 1
    /\ epochs > 1
    /\ config.subdivisions = 2
    /\ batches_per_epoch = 3
    /\ pending = 1
    /\ 1 \in DOMAIN disk
    /\ disk[1] = File(TRUE, 1)

(***************************************************************************)
(* C13: an image whose label file is missing or cannot be read or          *)
(* converted, or which cannot be read itself, is skipped and nothing else: *)
(* no image aborts the conversion, and when the conversion has ended every *)
(* readable image whose label file has lines that all convert is in one of *)
(* the two manifests.                                                      *)
(***************************************************************************)
Resolvable(name) == Label(name) = "lines" /\ name \in conversion.readable

Manifests == Range(conversion.train) \cup Range(conversion.val)

C13_SkipUnresolved ==
    /\ conversion.pc = "aborted" /\ conversion.next \in DOMAIN conversion.files =>
          LET file_name == conversion.files[conversion.next]
          IN  file_name.parts = <<>> \/ ~IsJpg(file_name)
    /\ conversion.pc = "done" =>
          \A name \in Images(conversion.directory) :
             Resolvable(name) => name \in Manifests

=============================================================================
